---- MODULE Spec2Model ----
(***************************************************************************)
(* Plant monitor sketches for an ESP32 with a 2.13" bi-level e-paper       *)
(* panel.  The repository holds six near-duplicate sketches; each is a     *)
(* "variant" here:                                                         *)
(*   plantmonitor  src/plantmonitor/plantmonitor.ino   partial refresh     *)
(*   part001a      src/unnamed/part_001 lines   1-240  change detection    *)
(*   part001b      src/unnamed/part_001 lines 242-548  5 bands, probe pwr  *)
(*   part000a      src/unnamed/part_000 lines   1-235  full refresh        *)
(*   part000b      src/unnamed/part_000 lines 237-405  renderScreen        *)
(*   part002       src/unnamed/part_002                renderScreen, rot 0 *)
(***************************************************************************)
EXTENDS Integers, Sequences, FiniteSets, TLC

VARIABLES
    variant,        \* which sketch is flashed
    DRY_RAW,        \* calibration constant of the sketch ("<-- change")
    WET_RAW,        \* calibration constant of the sketch ("<-- change")
    raw,            \* last averaged sensor code (int raw), -1 before any sample
    pct,            \* last mapped percent (int pct), -1 before any mapping
    status,         \* label returned by statusFromPct for pct, "" before
    pc,             \* "boot" before setup(), "run" after it, "trapped" on a CPU exception
    now,            \* millis(): the 32-bit tick counter, as two 16-bit limbs <<hi, lo>>
    lastUpdate,     \* static uint32_t lastUpdate of loop(), as two limbs
    lastPct,        \* static int lastPct of loop() (change-detection sketch)
    frontPct,       \* the percent whose frame is drawn in BWimage, -1 while blank
    panel,          \* the last physical refresh the panel driver was asked for
    fault,          \* "div0" once an integer division by zero was executed
    drawn,          \* the drawing calls of the latest drawDynamic / renderScreen, in order
    BWimage,        \* the bytes of the front buffer (region extraction only)
    boxBuf,         \* static uint8_t boxBuf[BOX_ROW_BYTES * BOX_H]
    copied,         \* whether copyBoxFromBWimage has run on BWimage
    ticks,          \* number of clock advances so far (bounded by MaxTicks)
    sinceRefresh,   \* true ms since the loop() activation that last refreshed, -1 if none
    lastGap,        \* sinceRefresh as it stood at the latest loop() refresh, -1 if first
    sinceFull,      \* due cycles of loop() since its last full-frame refresh
    probePin,       \* level of PROBE_PWR_PIN: "floating" until driven, then "LOW" / "HIGH"
    adcLog,         \* what the latest power-switched readMoistureRaw did, in order
    elapsedBig,     \* true time since lastUpdate was assigned: whole long advances
    elapsedSmall,   \* true time since lastUpdate was assigned: the rest, in ms
    sinceBoot,      \* true ms since the refresh of setup() while it is the latest
                    \* refresh (counted up to UPDATE_MS), -1 otherwise
    logging         \* whether adcLog is kept (history only, no effect on the sketch)

cfgVars == <<variant, DRY_RAW, WET_RAW>>
mapVars == <<raw, pct, status>>
progVars == <<pc, now, lastUpdate, lastPct, frontPct, panel, fault, drawn>>
rasterVars == <<BWimage, boxBuf, copied>>
ghostVars == <<ticks, sinceRefresh, lastGap, sinceFull>>
probeVars == <<probePin, adcLog>>
histVars == <<elapsedBig, elapsedSmall, sinceBoot, logging>>
vars == <<cfgVars, mapVars, progVars, rasterVars, ghostVars, probeVars, histVars>>

----------------------------------------------------------------------------
(* Configuration                                                           *)

Variants == {"plantmonitor", "part001a", "part001b", "part000a", "part000b", "part002"}

\* analogReadResolution(12): the ADC returns codes 0 .. 2^12 - 1
ADC_BITS == 12
ADC_MAX == 2^ADC_BITS - 1

\* const int DRY_RAW / WET_RAW as written in each sketch
SourceDryRaw(v) == IF v = "part001b" THEN 1468 ELSE 3200
SourceWetRaw(v) == IF v = "part001b" THEN 566 ELSE 1400

\* the sketches that test denom == 0 before dividing
Guarded(v) == v \in {"part000b", "part002"}

\* the sketch with the five-level threshold table
FiveBand(v) == v = "part001b"

\* const uint32_t UPDATE_MS = 30UL * 60UL * 1000UL;
UPDATE_MS == 30 * 60 * 1000

\* const int N = 16; of readMoistureRaw
N == 16

\* panel size of epd_2inch13.h, as the sketches' comments give it
EPD_WIDTH == 122
EPD_HEIGHT == 250

\* the sketches that keep a dynamic box (the other two redraw the whole screen)
HasBox(v) == v \in {"plantmonitor", "part001a", "part001b", "part000a"}

\* #define SCREEN_W EPD_HEIGHT / SCREEN_H EPD_WIDTH (landscape sketches)
SCREEN_W == EPD_HEIGHT
SCREEN_H == EPD_WIDTH

HEADER_H(v) == IF v = "part001a" THEN 30 ELSE 28

BOX_X(v) == 0

BOX_Y(v) ==
    CASE v = "plantmonitor" -> 32
      [] v = "part001a" -> HEADER_H(v)
      [] v \in {"part001b", "part000a"} -> HEADER_H(v) + 4

BOX_W(v) ==
    CASE v = "plantmonitor" -> 120
      [] v = "part001a" -> EPD_WIDTH
      [] v \in {"part001b", "part000a"} -> (SCREEN_W \div 8) * 8

BOX_H(v) ==
    CASE v = "plantmonitor" -> 210
      [] v = "part001a" -> EPD_HEIGHT - HEADER_H(v)
      [] v \in {"part001b", "part000a"} -> SCREEN_H - BOX_Y(v)

SCR_ROW_BYTES == IF EPD_WIDTH % 8 = 0 THEN EPD_WIDTH \div 8 ELSE EPD_WIDTH \div 8 + 1
BOX_ROW_BYTES(v) == IF BOX_W(v) % 8 = 0 THEN BOX_W(v) \div 8 ELSE BOX_W(v) \div 8 + 1

\* what loop() ends a rendered cycle with: partialUpdateBox() or EPD_Display()
PartialRefresh(v) == v \in {"plantmonitor", "part001a"}

\* the sketch whose loop() returns early when pct == lastPct
ChangeDetect(v) == v = "part001a"

THRESH_DRY(v) == IF FiveBand(v) THEN 20 ELSE 35
THRESH_SLIGHT == 40
THRESH_IDEAL == 60
THRESH_WET(v) == IF FiveBand(v) THEN 80 ELSE 70
THRESH_SATURATED == 90

----------------------------------------------------------------------------
(* Integer arithmetic of the build (int and long are 32 bits on ESP32)     *)

Abs(a) == IF a < 0 THEN -a ELSE a

Min(a, b) == IF a < b THEN a ELSE b

\* uint32_t values are kept as two 16-bit limbs <<hi, lo>>, so that the
\* arithmetic is exactly modulo 2^32
LimbBase == 2^16

U32Of(n) == <<n \div LimbBase, n % LimbBase>>

U32Add(a, b) ==
    LET lo == a[2] + b[2]
        hi == a[1] + b[1] + (lo \div LimbBase)
    IN  <<hi % LimbBase, lo % LimbBase>>

U32Sub(a, b) ==
    LET lo == a[2] - b[2]
        hi == a[1] - b[1] - (IF lo < 0 THEN 1 ELSE 0)
    IN  <<(hi + LimbBase) % LimbBase, (lo + LimbBase) % LimbBase>>

U32Lt(a, b) == a[1] < b[1] \/ (a[1] = b[1] /\ a[2] < b[2])

\* a division that loses the sign of the quotient
CDiv_Magnitude(a, b) == Abs(a) \div Abs(b)

\* a division that rounds the quotient to the nearest integer instead
CDiv_Nearest(a, b) ==
    LET q == (2 * Abs(a) + Abs(b)) \div (2 * Abs(b))
    IN  IF (a < 0) = (b < 0) THEN q ELSE -q

\* C's "/" on signed integers: the quotient truncated toward zero (b # 0)
CDiv(a, b) ==
    LET q == Abs(a) \div Abs(b)
    IN  IF (a < 0) = (b < 0) THEN q ELSE -q

\* a clamp that forgets the lower limit
clampi_NoLower(v, lo, hi) == IF v > hi THEN hi ELSE v

\* a clamp that forgets the upper limit
clampi_NoUpper(v, lo, hi) == IF v < lo THEN lo ELSE v

clampi(v, lo, hi) == IF v < lo THEN lo ELSE IF v > hi THEN hi ELSE v

\* long pct = (long)(DRY_RAW - raw) * 100L / (long)(DRY_RAW - WET_RAW);
\* return clampi((int)pct, 0, 100);
\* With all three operands in 0 .. ADC_MAX the product is at most 409500 in
\* magnitude, so the 32-bit long never overflows and the cast is the identity.
moisturePercent(r, dry, wet) ==
    clampi(CDiv((dry - r) * 100, dry - wet), 0, 100)

\* long denom = ...; if (denom == 0) return 0; then as moisturePercent
moisturePercentFromRaw(r, dry, wet) ==
    LET denom == dry - wet
    IN  IF denom = 0 THEN 0 ELSE clampi(CDiv((dry - r) * 100, denom), 0, 100)

\* the mapper a sketch calls
MapPercent(v, r, dry, wet) ==
    IF Guarded(v) THEN moisturePercentFromRaw(r, dry, wet)
    ELSE moisturePercent(r, dry, wet)

\* a classifier whose DRY band takes its upper threshold with it
statusFromPct3_Inclusive(v, p) ==
    IF p <= THRESH_DRY(v) THEN "DRY"
    ELSE IF p >= THRESH_WET(v) THEN "WET"
    ELSE "OK"

\* statusFromPct of the three-band sketches
statusFromPct3(v, p) ==
    IF p < THRESH_DRY(v) THEN "DRY"
    ELSE IF p >= THRESH_WET(v) THEN "WET"
    ELSE "OK"

\* statusFromPct of the five-level sketch
statusFromPct5(v, p) ==
    IF p < THRESH_DRY(v) THEN "DRY"
    ELSE IF p < THRESH_SLIGHT THEN "DAMP"
    ELSE IF p < THRESH_IDEAL THEN "IDEAL"
    ELSE IF p < THRESH_WET(v) THEN "WET"
    ELSE IF p < THRESH_SATURATED THEN "VERY WET"
    ELSE "SATURATED"

statusFromPct(v, p) == IF FiveBand(v) THEN statusFromPct5(v, p) ELSE statusFromPct3(v, p)

----------------------------------------------------------------------------
(* Drawing.  The primitives of epd_gui.h are recorded as calls: the shape, *)
(* its coordinates as passed, colour, fill mode and dot size.  Extent(op)  *)
(* is the rectangle of pixels a call is certain to reach: the corners of a *)
(* rectangle, the end points of a line, centre +- radius of a circle.  The *)
(* advance width of a glyph is set in fonts.h, so a string is recorded by  *)
(* the column it starts in and the rows of its text line.                  *)

\* sFONT Font16 / Font24: the line height in pixels
Font16 == 16
Font24 == 24

Gui_Draw_Rectangle(part, xa, ya, xb, yb, color, fill) ==
    [part |-> part, shape |-> "rect", x0 |-> xa, y0 |-> ya, x1 |-> xb, y1 |-> yb,
     r |-> 0, color |-> color, fill |-> fill, dot |-> 1, txt |-> <<>>]

Gui_Draw_Circle(part, cx, cy, rad, color, fill, dot) ==
    [part |-> part, shape |-> "circle", x0 |-> cx, y0 |-> cy, x1 |-> cx, y1 |-> cy,
     r |-> rad, color |-> color, fill |-> fill, dot |-> dot, txt |-> <<>>]

Gui_Draw_Line(part, xa, ya, xb, yb, dot) ==
    [part |-> part, shape |-> "line", x0 |-> xa, y0 |-> ya, x1 |-> xb, y1 |-> yb,
     r |-> 0, color |-> "BLACK", fill |-> "EMPTY", dot |-> dot, txt |-> <<>>]

Gui_Draw_Point(part, x, y, dot) ==
    [part |-> part, shape |-> "point", x0 |-> x, y0 |-> y, x1 |-> x, y1 |-> y,
     r |-> 0, color |-> "BLACK", fill |-> "FULL", dot |-> dot, txt |-> <<>>]

Gui_Draw_Str(part, x, y, txt, font) ==
    [part |-> part, shape |-> "str", x0 |-> x, y0 |-> y, x1 |-> x, y1 |-> y + font - 1,
     r |-> 0, color |-> "BLACK", fill |-> "EMPTY", dot |-> 1, txt |-> txt]

Max(a, b) == IF a > b THEN a ELSE b

Extent(op) ==
    [xmin |-> Min(op.x0, op.x1) - op.r, ymin |-> Min(op.y0, op.y1) - op.r,
     xmax |-> Max(op.x0, op.x1) + op.r, ymax |-> Max(op.y0, op.y1) + op.r]

\* two filled dots and a slash
drawPercentSymbol(x, y) ==
    << Gui_Draw_Circle("percent", x + 2, y + 2, 2, "BLACK", "FULL", 1),
       Gui_Draw_Circle("percent", x + 12, y + 14, 2, "BLACK", "FULL", 1),
       Gui_Draw_Line("percent", x + 12, y + 2, x + 2, y + 14, 1) >>

\* head and eyes, the same in every sketch
FaceHead(cx, cy, r) ==
    << Gui_Draw_Circle("head", cx, cy, r, "BLACK", "EMPTY", 2),
       Gui_Draw_Circle("eye", cx - r \div 3, cy - r \div 4, 3, "BLACK", "FULL", 1),
       Gui_Draw_Circle("eye", cx + r \div 3, cy - r \div 4, 3, "BLACK", "FULL", 1) >>

\* a mouth of three strokes: the corners at height cy + e, the middle at cy + m
Mouth3(cx, cy, r, e, m) ==
    << Gui_Draw_Line("mouth", cx - r \div 2, cy + e, cx - r \div 4, cy + m, 2),
       Gui_Draw_Line("mouth", cx - r \div 4, cy + m, cx + r \div 4, cy + m, 2),
       Gui_Draw_Line("mouth", cx + r \div 4, cy + m, cx + r \div 2, cy + e, 2) >>

\* drawFaceAt of the three-band sketches (part_000's renderScreen sketch
\* lifts the corners of the smile by r/5, the others by r/6)
drawFaceAt3(v, cx, cy, r, p) ==
    FaceHead(cx, cy, r) \o
    ( IF p >= THRESH_WET(v)
      THEN Mouth3(cx, cy, r, r \div (IF v = "part000b" THEN 5 ELSE 6), r \div 3)
      ELSE IF p < THRESH_DRY(v)
      THEN Mouth3(cx, cy, r, r \div 2, r \div 3)
      ELSE << Gui_Draw_Line("mouth", cx - r \div 2 + 6, cy + r \div 3,
                            cx + r \div 2 - 6, cy + r \div 3, 2) >> )

\* drawFaceAt of the five-level sketch
drawFaceAt5(v, cx, cy, r, p) ==
    FaceHead(cx, cy, r) \o
    ( IF p < THRESH_DRY(v) THEN Mouth3(cx, cy, r, r \div 2, r \div 3)
      ELSE IF p < THRESH_SLIGHT THEN Mouth3(cx, cy, r, r \div 3, r \div 4)
      ELSE IF p < THRESH_IDEAL THEN Mouth3(cx, cy, r, r \div 4, r \div 3)
      ELSE IF p < THRESH_WET(v) THEN Mouth3(cx, cy, r, r \div 6, r \div 3)
      ELSE << Gui_Draw_Line("mouth", cx - r \div 2 + 4, cy + r \div 3,
                            cx + r \div 2 - 4, cy + r \div 3, 2),
              Gui_Draw_Circle("sweat", cx - r + 2, cy - r \div 3, 2, "BLACK", "FULL", 1) >> )

drawFaceAt(v, cx, cy, r, p) ==
    IF FiveBand(v) THEN drawFaceAt5(v, cx, cy, r, p) ELSE drawFaceAt3(v, cx, cy, r, p)

\* drawStaticLayout(): title, divider and the outline of the dynamic box
drawStaticLayout(v) ==
    << Gui_Draw_Str("title", 0, 0, <<"Plant Monitor">>, Font24),
       Gui_Draw_Line("divider", 0, IF v \in {"plantmonitor", "part001a"} THEN 28 ELSE HEADER_H(v),
                     CASE v = "plantmonitor" -> 119
                       [] v = "part001a" -> EPD_WIDTH - 1
                       [] OTHER -> BOX_W(v) - 1,
                     IF v \in {"plantmonitor", "part001a"} THEN 28 ELSE HEADER_H(v), 1),
       Gui_Draw_Rectangle("outline", BOX_X(v), BOX_Y(v), BOX_X(v) + BOX_W(v) - 1,
                          BOX_Y(v) + BOX_H(v) - 1, "BLACK", "EMPTY") >>

\* Clear inside the box (leave outline)
ClearBox(v) ==
    << Gui_Draw_Rectangle("clear", BOX_X(v) + 1, BOX_Y(v) + 1, BOX_X(v) + BOX_W(v) - 2,
                          BOX_Y(v) + BOX_H(v) - 2, "WHITE", "FULL") >>

\* int xPct = leftX + (pct < 10 ? 18 : (pct < 100 ? 32 : 46));
XPct(leftX, p) == leftX + (IF p < 10 THEN 18 ELSE IF p < 100 THEN 32 ELSE 46)

\* the bar of the fillW sketches: outline, then a filled rectangle from
\* barX + 1 to barX + 1 + fillW with fillW = (barW - 2) * pct / 100
BarFillW(barX, barY, barW, barH, p) ==
    LET fillW == ((barW - 2) * p) \div 100
    IN  << Gui_Draw_Rectangle("bar", barX, barY, barX + barW, barY + barH, "BLACK", "EMPTY"),
           Gui_Draw_Rectangle("fill", barX + 1, barY + 1, barX + 1 + fillW,
                              barY + barH - 1, "BLACK", "FULL") >>

\* drawDynamic of plantmonitor.ino
drawDynamic_plantmonitor(v, p) ==
    LET leftX == 6
        faceR == 28
        faceCx == BOX_X(v) + (BOX_W(v) * 3) \div 4
        faceCy == BOX_Y(v) + BOX_H(v) \div 2
    IN  ClearBox(v) \o
        << Gui_Draw_Str("label", leftX, BOX_Y(v) + 10, <<"Moisture">>, Font16),
           Gui_Draw_Str("value", leftX, BOX_Y(v) + 34, <<"%d", p>>, Font24) >> \o
        drawPercentSymbol(XPct(leftX, p), BOX_Y(v) + 40) \o
        << Gui_Draw_Str("status", leftX, BOX_Y(v) + 72,
                        <<"Status: %s", statusFromPct(v, p)>>, Font16) >> \o
        BarFillW(leftX, BOX_Y(v) + BOX_H(v) - 20, 56, 8, p) \o
        << Gui_Draw_Point("centre", faceCx, faceCy, 3) >> \o
        drawFaceAt(v, faceCx, faceCy, faceR, p)

\* drawDynamic of part_000's box sketch
drawDynamic_part000a(v, p) ==
    LET leftX == 6
        faceR == 18
        faceCx == BOX_X(v) + (BOX_W(v) * 3) \div 4
        faceCy == BOX_Y(v) + BOX_H(v) \div 2
    IN  ClearBox(v) \o
        << Gui_Draw_Str("label", leftX, BOX_Y(v) + 10, <<"Moisture">>, Font16),
           Gui_Draw_Str("value", leftX, BOX_Y(v) + 34, <<"%d", p>>, Font24) >> \o
        drawPercentSymbol(XPct(leftX, p), BOX_Y(v) + 40) \o
        << Gui_Draw_Str("status", leftX, BOX_Y(v) + 72,
                        <<"Status: %s", statusFromPct(v, p)>>, Font16) >> \o
        BarFillW(leftX, BOX_Y(v) + BOX_H(v) - 16, 56, 8, p) \o
        drawFaceAt(v, faceCx, faceCy, faceR, p)

\* drawDynamic of part_001's change-detection sketch (no bar)
drawDynamic_part001a(v, p) ==
    LET leftX == 6
        leftBlockH == 16 + 24 + 16 + 16
        textTop == BOX_Y(v) + (BOX_H(v) - leftBlockH) \div 2
        leftAreaW == 62
        rightAreaW == BOX_W(v) - leftAreaW
        cx == BOX_X(v) + leftAreaW + rightAreaW \div 2
        cy == BOX_Y(v) + BOX_H(v) \div 2
        r0 == Min(rightAreaW, BOX_H(v)) \div 2 - 6
        r == IF r0 < 18 THEN 18 ELSE r0
    IN  ClearBox(v) \o
        << Gui_Draw_Str("label", leftX, textTop, <<"Moisture">>, Font16),
           Gui_Draw_Str("value", leftX, textTop + 22, <<"%d", p>>, Font24) >> \o
        drawPercentSymbol(XPct(leftX, p), textTop + 28) \o
        << Gui_Draw_Str("status", leftX, textTop + 62,
                        <<"Status: %s", statusFromPct(v, p)>>, Font16) >> \o
        drawFaceAt(v, cx, cy, r, p)

\* drawDynamic of part_001's five-level sketch
drawDynamic_part001b(v, p) ==
    LET leftX == 6
        barX == leftX
        barY == BOX_Y(v) + 40
        barW == 100
        barH == 15
        bx0 == barX
        by0 == barY
        bx1 == barX + barW
        by1 == barY + barH
        ix0 == bx0 + 1
        ix1 == bx1 - 1
        iy0 == by0
        iy1 == by1
        innerW == ix1 - ix0 + 1
        fillPx == (innerW * p) \div 100
        faceR == 45
        faceDx == 5
        faceDy == 20
        pad == 2
        faceCx == clampi(BOX_X(v) + (BOX_W(v) * 3) \div 4 + faceDx,
                         BOX_X(v) + pad + faceR, BOX_X(v) + BOX_W(v) - pad - faceR)
        faceCy == clampi(BOX_Y(v) + BOX_H(v) \div 2 + faceDy,
                         BOX_Y(v) + pad + faceR, BOX_Y(v) + BOX_H(v) - pad - faceR)
    IN  ClearBox(v) \o
        << Gui_Draw_Str("label", leftX, BOX_Y(v) - 20, <<"Moisture">>, Font24),
           Gui_Draw_Str("value", leftX, BOX_Y(v) + 4, <<"%d", p>>, Font24) >> \o
        drawPercentSymbol(XPct(leftX, p) + 20, BOX_Y(v) + 5) \o
        << Gui_Draw_Str("status", leftX, BOX_Y(v) + 72, <<statusFromPct(v, p)>>, Font16),
           Gui_Draw_Rectangle("bar", bx0, by0, bx1, by1, "BLACK", "EMPTY") >> \o
        ( IF fillPx > 0
          THEN << Gui_Draw_Rectangle("fill", ix0, iy0, ix0 + fillPx - 1, iy1, "BLACK", "FULL") >>
          ELSE << >> ) \o
        drawFaceAt(v, faceCx, faceCy, faceR, p)

drawDynamic(v, p) ==
    CASE v = "plantmonitor" -> drawDynamic_plantmonitor(v, p)
      [] v = "part000a" -> drawDynamic_part000a(v, p)
      [] v = "part001a" -> drawDynamic_part001a(v, p)
      [] v = "part001b" -> drawDynamic_part001b(v, p)

\* static const int CANVAS_W / CANVAS_H of the renderScreen sketches
CANVAS_W(v) == IF v = "part002" THEN EPD_WIDTH ELSE EPD_HEIGHT
CANVAS_H(v) == IF v = "part002" THEN EPD_HEIGHT ELSE EPD_WIDTH

\* renderScreen(pct): the whole screen is cleared and redrawn
renderScreen(v, p) ==
    LET leftX == IF v = "part002" THEN 4 ELSE 10
        ytop == IF v = "part002" THEN 48 ELSE 40
        stY == IF v = "part002" THEN ytop + 58 ELSE ytop + 52
        barY == IF v = "part002" THEN CANVAS_H(v) - 18 ELSE CANVAS_H(v) - 14
        barW == IF v = "part002" THEN 66 ELSE 110
        barH == IF v = "part002" THEN 10 ELSE 8
        faceCx == IF v = "part002" THEN 88 ELSE 185
        faceCy == IF v = "part002" THEN 120 ELSE 74
        faceR == IF v = "part002" THEN 26 ELSE 30
    IN  << Gui_Draw_Rectangle("clear", 0, 0, CANVAS_W(v) - 1, CANVAS_H(v) - 1, "WHITE", "FULL"),
           Gui_Draw_Str("title", 0, 0, <<"Plant Monitor">>, Font24),
           Gui_Draw_Line("divider", 0, 28, CANVAS_W(v) - 1, 28, 1),
           Gui_Draw_Str("label", leftX, ytop, <<"Moisture">>, Font16),
           Gui_Draw_Str("value", leftX, ytop + 20, <<"%d", p>>, Font24) >> \o
        drawPercentSymbol(XPct(leftX, p), ytop + 28) \o
        << Gui_Draw_Str("status", leftX, stY,
                        <<IF v = "part002" THEN "Status:%s" ELSE "Status: %s",
                          statusFromPct(v, p)>>, Font16) >> \o
        BarFillW(leftX, barY, barW, barH, p) \o
        drawFaceAt(v, faceCx, faceCy, faceR, p)

\* what a sketch draws for the percent p
Drawing(v, p) == IF HasBox(v) THEN drawDynamic(v, p) ELSE renderScreen(v, p)

----------------------------------------------------------------------------
(* The sampler                                                             *)

RECURSIVE SumTo(_, _)
SumTo(s, n) == IF n = 0 THEN 0 ELSE s[n] + SumTo(s, n - 1)

\* long sum = 0; for (i < N) sum += analogRead(MOISTURE_PIN); return (int)(sum / N);
\* reads are the N codes analogRead returns, in order
readMoistureRaw(reads) == SumTo(reads, N) \div N

\* ADC codes the sensor is made to return: both ends of the range, a
\* calibration point and a code between the calibration points
AdcLevels == {0, 1400, 2300, ADC_MAX}

\* the N reads of one call: k reads of code a, then N - k reads of code b
SplitPoints == {0, 8}
Reads(a, b, k) == [i \in 1 .. N |-> IF i <= k THEN a ELSE b]
SampleInputs == {Reads(a, b, k) : a \in AdcLevels, b \in AdcLevels, k \in SplitPoints}

\* the sketch that switches the probe's supply: const int PROBE_PWR_PIN = 25;
HasProbePower(v) == v = "part001b"

\* delay(120): the settle time after power-on, in ms
SETTLE_MS == 120

\* for (int i = 0; i < 6; i++) { analogRead(MOISTURE_PIN); delay(5); }
WARMUP == 6

\* the statements of the power-switched readMoistureRaw, in program order
\* (the delay(5) after every read is left out)
SamplerProgram ==
    <<"on", "settle">> \o [i \in 1 .. WARMUP |-> "discard"] \o
    [i \in 1 .. N |-> "sample"] \o <<"off">>

\* runs prog from statement i on: pin is the level of PROBE_PWR_PIN, sum the
\* accumulator, k the number of analogRead calls made so far; codes[k + 1] is
\* what the next analogRead returns.  Every statement is logged with the
\* level of the pin while it executes.
RECURSIVE RunSampler(_, _, _, _, _, _, _)
RunSampler(prog, codes, i, pin, sum, k, log) ==
    IF i > Len(prog)
    THEN [ret |-> sum \div N, pin |-> pin, log |-> log]
    ELSE CASE prog[i] = "on" ->
                RunSampler(prog, codes, i + 1, "HIGH", sum, k,
                           Append(log, [ev |-> "power", val |-> 1, pin |-> "HIGH"]))
           [] prog[i] = "off" ->
                RunSampler(prog, codes, i + 1, "LOW", sum, k,
                           Append(log, [ev |-> "power", val |-> 0, pin |-> "LOW"]))
           [] prog[i] = "settle" ->
                RunSampler(prog, codes, i + 1, pin, sum, k,
                           Append(log, [ev |-> "delay", val |-> SETTLE_MS, pin |-> pin]))
           [] prog[i] = "discard" ->
                RunSampler(prog, codes, i + 1, pin, sum, k + 1,
                           Append(log, [ev |-> "discard", val |-> codes[k + 1], pin |-> pin]))
           [] prog[i] = "sample" ->
                RunSampler(prog, codes, i + 1, pin, sum + codes[k + 1], k + 1,
                           Append(log, [ev |-> "sample", val |-> codes[k + 1], pin |-> pin]))

\* a sampler that averages from the first read on, with no warm-up
readMoistureRaw_NoWarmup(codes, pin) ==
    RunSampler(<<"on", "settle">> \o [i \in 1 .. N |-> "sample"] \o <<"off">>,
               codes, 1, pin, 0, 0, << >>)

\* readMoistureRaw of the power-switched sketch; codes are the WARMUP + N
\* codes analogRead returns, pin the level of PROBE_PWR_PIN on entry
readMoistureRaw_probe(codes, pin) ==
    RunSampler(SamplerProgram, codes, 1, pin, 0, 0, << >>)

\* codes of the warm-up reads: the sensor node still settling at either rail
WarmLevels == {0, ADC_MAX}
WarmReads(w) == [i \in 1 .. WARMUP |-> w]

----------------------------------------------------------------------------
(* The program: setup(), loop() and the passing of time                    *)

\* number of clock advances explored
MaxTicks == 4

\* the ghost clock sinceRefresh stops counting at twice the interval
SatCap == 2 * UPDATE_MS

\* a clock advance in ms, cut off at SatCap
DeltaMs(d) == IF d[1] > U32Of(SatCap)[1] THEN SatCap ELSE Min(d[1] * LimbBase + d[2], SatCap)

\* time that passes between two activations of loop(): a millisecond, just
\* under the interval, the interval, and all but one interval of a full
\* turn of the 32-bit counter
Deltas ==
    { U32Of(1), U32Of(UPDATE_MS - 1), U32Of(UPDATE_MS),
      U32Sub(U32Of(0), U32Of(UPDATE_MS)) }

\* the advance that takes the counter all but one interval round
BigDelta == U32Sub(U32Of(0), U32Of(UPDATE_MS))

\* results an executed division by zero leaves in pct when the CPU does not trap
DivZeroValues == {0, 100}

NoRefresh ==
    [kind |-> "none", by |-> "none", x |-> 0, y |-> 0, w |-> 0, h |-> 0, pct |-> -1]

\* EPD_Display(BWimage, RWimage): the whole frame
FullFrame(by, p) ==
    [kind |-> "full", by |-> by, x |-> 0, y |-> 0, w |-> EPD_WIDTH, h |-> EPD_HEIGHT, pct |-> p]

\* partialUpdateBox(): copyBoxFromBWimage(); EPD_Dis_Part(BOX_X, BOX_Y, boxBuf, BOX_H, BOX_W)
partialUpdateBox(v, p) ==
    [kind |-> "partial", by |-> "loop", x |-> BOX_X(v), y |-> BOX_Y(v),
     w |-> BOX_W(v), h |-> BOX_H(v), pct |-> p]

\* the state at power-on: the statics of loop() and the millis() counter at 0
PowerOn ==
    /\ pc = "boot"
    /\ now = U32Of(0)
    /\ lastUpdate = U32Of(0)
    /\ lastPct = -1
    /\ frontPct = -1
    /\ panel = NoRefresh
    /\ fault = "none"
    /\ drawn = << >>
    /\ BWimage = << >>
    /\ boxBuf = << >>
    /\ copied = FALSE
    /\ ticks = 0
    /\ sinceRefresh = -1
    /\ lastGap = -1
    /\ sinceFull = 0
    /\ probePin = "floating"
    /\ adcLog = << >>
    /\ elapsedBig = 0
    /\ elapsedSmall = 0
    /\ sinceBoot = -1
    /\ logging = FALSE

\* a sketch as it is in the repository
Init ==
    /\ variant \in Variants
    /\ DRY_RAW = SourceDryRaw(variant)
    /\ WET_RAW = SourceWetRaw(variant)
    /\ raw = -1
    /\ pct = -1
    /\ status = ""
    /\ PowerOn

\* a sketch whose user has edited the calibration constants ("<-- change"):
\* left as they are, or both set to the same code
InitCal ==
    /\ variant \in Variants
    /\ \E c \in { <<SourceDryRaw(variant), SourceWetRaw(variant)>>,
                  <<SourceWetRaw(variant), SourceWetRaw(variant)>> } :
            DRY_RAW = c[1] /\ WET_RAW = c[2]
    /\ raw = -1
    /\ pct = -1
    /\ status = ""
    /\ PowerOn

\* readMoistureRaw_probe on every input tried, as a function
PinLevels == {"floating", "LOW", "HIGH"}
ProbeInputs == {WarmReads(w) \o r : w \in WarmLevels, r \in SampleInputs}
ProbeCalls == [c \in ProbeInputs, l \in PinLevels |-> readMoistureRaw_probe(c, l)]

\* the warm-up codes a call of the sampler consumes (none without probe power)
WarmInputs(v) == IF HasProbePower(v) THEN WarmLevels ELSE {0}

\* one call of the sketch's sampler: the value returned, the level the probe
\* pin is left at and the log of the power-switched sampler
Sample(v, reads, w, pin) ==
    IF HasProbePower(v)
    THEN ProbeCalls[WarmReads(w) \o reads, pin]
    ELSE [ret |-> readMoistureRaw(reads), pin |-> pin, log |-> << >>]

\* a sketch without the denom == 0 test divides by DRY_RAW - WET_RAW
DividesByZero == DRY_RAW = WET_RAW /\ ~Guarded(variant)

\* drawDynamic(p) / renderScreen(p): the frame for p is drawn into BWimage,
\* with the label statusFromPct(p)
Render(p) ==
    /\ pct' = p
    /\ status' = statusFromPct(variant, p)
    /\ frontPct' = p
    /\ drawn' = Drawing(variant, p)

\* setup(): drawStaticLayout(); raw = readMoistureRaw(); pct = moisturePercent(raw);
\* drawDynamic(pct); EPD_Display(BWimage, RWimage);
Setup ==
    /\ pc = "boot"
    /\ \E reads \in SampleInputs, w \in WarmInputs(variant) :
          \* pinMode(PROBE_PWR_PIN, OUTPUT); digitalWrite(PROBE_PWR_PIN, LOW);
          LET s == Sample(variant, reads, w,
                          IF HasProbePower(variant) THEN "LOW" ELSE probePin)
          IN  /\ raw' = s.ret
              /\ probePin' = s.pin
              /\ adcLog' = IF logging THEN s.log ELSE << >>
              /\ IF DividesByZero
                 THEN /\ fault' = "div0"
                      /\ \/ /\ pc' = "trapped"
                            /\ UNCHANGED <<pct, status, frontPct, panel, drawn, sinceBoot>>
                         \/ \E g \in DivZeroValues :
                               /\ pc' = "run"
                               /\ Render(g)
                               /\ panel' = FullFrame("setup", g)
                               /\ sinceBoot' = 0
                 ELSE /\ pc' = "run"
                      /\ Render(MapPercent(variant, raw', DRY_RAW, WET_RAW))
                      /\ panel' = FullFrame("setup", pct')
                      /\ sinceBoot' = 0
                      /\ UNCHANGED fault
    /\ UNCHANGED <<cfgVars, rasterVars, now, lastUpdate, lastPct, ghostVars,
                   elapsedBig, elapsedSmall, logging>>

\* a debounce test that forgets lastUpdate
Due_IgnoresLast(t, last) == ~U32Lt(t, U32Of(UPDATE_MS))

\* a debounce test written as now >= lastUpdate + UPDATE_MS
Due_SumCompare(t, last) == ~U32Lt(t, U32Add(last, U32Of(UPDATE_MS)))

\* if ((uint32_t)(now - lastUpdate) < UPDATE_MS) return;   (negated)
Due(t, last) == ~U32Lt(U32Sub(t, last), U32Of(UPDATE_MS))

\* if (now - lastUpdate < UPDATE_MS) return;   (negated; the sketch without
\* the cast).  Both operands are uint32_t, which is not promoted on a 32-bit
\* target, so the difference is taken modulo 2^32 here too.
DueUncast(t, last) == ~U32Lt(U32Sub(t, last), U32Of(UPDATE_MS))

\* the debounce test of the sketch v
DueIn(v, t, last) == IF v = "part001a" THEN DueUncast(t, last) ELSE Due(t, last)

\* a comparison with a dead band of one percent
SamePct_DeadBand(p, last) == Abs(p - last) <= 1

\* if (pct == lastPct)
SamePct(p, last) == p = last

\* the rest of a due cycle once the percent p is known
Cycle(p) ==
    IF ChangeDetect(variant) /\ SamePct(p, lastPct)
    THEN \* if (pct == lastPct) return;
         /\ pct' = p
         /\ sinceFull' = sinceFull + 1
         /\ UNCHANGED <<status, frontPct, panel, drawn, lastPct, sinceRefresh, lastGap,
                        sinceBoot>>
    ELSE /\ Render(p)
         /\ lastPct' = IF ChangeDetect(variant) THEN p ELSE lastPct
         /\ panel' = IF PartialRefresh(variant) THEN partialUpdateBox(variant, p)
                     ELSE FullFrame("loop", p)
         /\ lastGap' = sinceRefresh
         /\ sinceRefresh' = 0
         /\ sinceFull' = IF PartialRefresh(variant) THEN sinceFull + 1 ELSE 0
         /\ sinceBoot' = -1

\* one activation of loop()
Loop ==
    /\ pc = "run"
    /\ IF ~DueIn(variant, now, lastUpdate)
       THEN UNCHANGED <<mapVars, progVars, ghostVars, probeVars, histVars>>
       ELSE /\ lastUpdate' = now
            /\ elapsedBig' = 0
            /\ elapsedSmall' = 0
            /\ \E reads \in SampleInputs, w \in WarmInputs(variant) :
                  LET s == Sample(variant, reads, w, probePin)
                  IN  /\ raw' = s.ret
                      /\ probePin' = s.pin
                      /\ adcLog' = IF logging THEN s.log ELSE << >>
                      /\ IF DividesByZero
                         THEN /\ fault' = "div0"
                              /\ \/ /\ pc' = "trapped"
                                    /\ UNCHANGED <<pct, status, frontPct, panel, drawn,
                                                   lastPct, sinceRefresh, lastGap,
                                                   sinceFull, sinceBoot>>
                                 \/ /\ pc' = "run"
                                    /\ \E g \in DivZeroValues : Cycle(g)
                         ELSE /\ pc' = "run"
                              /\ Cycle(MapPercent(variant, raw', DRY_RAW, WET_RAW))
                              /\ UNCHANGED fault
            /\ UNCHANGED <<now, ticks, logging>>
    /\ UNCHANGED <<cfgVars, rasterVars>>

\* millis() advances by d between two activations
Tick(d) ==
    /\ pc # "trapped"
    /\ ticks < MaxTicks
    /\ ticks' = ticks + 1
    /\ now' = U32Add(now, d)
    /\ sinceRefresh' = IF sinceRefresh = -1 THEN -1
                       ELSE Min(sinceRefresh + DeltaMs(d), SatCap)
    /\ sinceBoot' = IF sinceBoot = -1 THEN -1 ELSE Min(sinceBoot + DeltaMs(d), UPDATE_MS)
    /\ elapsedBig' = IF d = BigDelta THEN elapsedBig + 1 ELSE elapsedBig
    /\ elapsedSmall' = IF d = BigDelta THEN elapsedSmall
                       ELSE elapsedSmall + d[1] * LimbBase + d[2]
    /\ UNCHANGED <<cfgVars, mapVars, rasterVars, pc, lastUpdate, lastPct, frontPct,
                   panel, fault, drawn, lastGap, sinceFull, probeVars, logging>>

Next ==
    \/ Setup
    \/ Loop
    \/ \E d \in Deltas : Tick(d)

Spec == Init /\ [][Next]_vars

SpecCal == InitCal /\ [][Next]_vars

\* the power-switched sketch, with the statements of its sampler recorded
InitProbe ==
    /\ variant \in {v \in Variants : HasProbePower(v)}
    /\ DRY_RAW = SourceDryRaw(variant)
    /\ WET_RAW = SourceWetRaw(variant)
    /\ raw = -1
    /\ pct = -1
    /\ status = ""
    /\ pc = "boot"
    /\ now = U32Of(0)
    /\ lastUpdate = U32Of(0)
    /\ lastPct = -1
    /\ frontPct = -1
    /\ panel = NoRefresh
    /\ fault = "none"
    /\ drawn = << >>
    /\ BWimage = << >>
    /\ boxBuf = << >>
    /\ copied = FALSE
    /\ ticks = 0
    /\ sinceRefresh = -1
    /\ lastGap = -1
    /\ sinceFull = 0
    /\ probePin = "floating"
    /\ adcLog = << >>
    /\ elapsedBig = 0
    /\ elapsedSmall = 0
    /\ sinceBoot = -1
    /\ logging = TRUE

SpecProbe == InitProbe /\ [][Next]_vars

----------------------------------------------------------------------------
(* The mapper as a function: one sample is mapped and labelled, as setup() *)
(* and loop() do with every averaged sample (moisturePercent, then         *)
(* statusFromPct inside the renderer).                                     *)

\* calibration pairs tried: the two the sketches ship with, the same two
\* inverted, the widest pairs and the narrowest ones, in both polarities
CalPairs ==
    { <<3200, 1400>>, <<1468, 566>>, <<1400, 3200>>, <<566, 1468>>,
      <<ADC_MAX, 0>>, <<0, ADC_MAX>>, <<2001, 2000>>, <<2000, 2001>> }

InitMapper ==
    /\ variant \in Variants
    /\ \E c \in CalPairs : DRY_RAW = c[1] /\ WET_RAW = c[2]
    /\ raw \in 0 .. ADC_MAX
    /\ pct = -1
    /\ status = ""
    /\ PowerOn

\* int pct = moisturePercent(raw); ... statusFromPct(pct)
MapSample ==
    /\ pct = -1
    /\ pct' = MapPercent(variant, raw, DRY_RAW, WET_RAW)
    /\ status' = statusFromPct(variant, pct')
    /\ UNCHANGED <<cfgVars, raw, progVars, rasterVars, ghostVars, probeVars, histVars>>

NextMapper == MapSample

SpecMapper == InitMapper /\ [][NextMapper]_vars

(* The classifier as a function of every percent the mapper can return.    *)

InitBands ==
    /\ variant \in Variants
    /\ DRY_RAW = SourceDryRaw(variant)
    /\ WET_RAW = SourceWetRaw(variant)
    /\ raw = -1
    /\ pct \in 0 .. 100
    /\ status = ""
    /\ PowerOn

Classify ==
    /\ status = ""
    /\ status' = statusFromPct(variant, pct)
    /\ UNCHANGED <<cfgVars, raw, pct, progVars, rasterVars, ghostVars, probeVars,
                   histVars>>

NextBands == Classify

SpecBands == InitBands /\ [][NextBands]_vars

(* The dynamic layer as a function of the percent, in the four sketches    *)
(* that keep a dynamic box.                                                *)

InitDraw ==
    /\ variant \in {v \in Variants : HasBox(v)}
    /\ DRY_RAW = SourceDryRaw(variant)
    /\ WET_RAW = SourceWetRaw(variant)
    /\ raw = -1
    /\ pct \in 0 .. 100
    /\ status = ""
    /\ PowerOn

\* drawDynamic(pct)
DrawDynamic ==
    /\ drawn = << >>
    /\ drawn' = drawDynamic(variant, pct)
    /\ status' = statusFromPct(variant, pct)
    /\ frontPct' = pct
    /\ UNCHANGED <<cfgVars, raw, pct, rasterVars, ghostVars, probeVars, histVars,
                   pc, now, lastUpdate, lastPct, panel, fault>>

NextDraw == DrawDynamic

SpecDraw == InitDraw /\ [][NextDraw]_vars

(* Region extraction as a function of the front buffer's bytes, in the     *)
(* four sketches that define copyBoxFromBWimage.                           *)

\* front-buffer contents tried: byte i holds (step * i + offset) mod 256
MaxPatStep == 4
MaxPatOffset == 3
Pattern(step, offset) ==
    [i \in 1 .. SCR_ROW_BYTES * EPD_HEIGHT |-> (step * (i - 1) + offset) % 256]

\* for (y < BOX_H) memcpy(boxBuf + y * BOX_ROW_BYTES,
\*                        BWimage + (BOX_Y + y) * SCR_ROW_BYTES + srcByteX, BOX_ROW_BYTES);
\* (sequences count from 1, byte offsets from 0)
copyBoxFromBWimage(v, img) ==
    LET srcByteX == BOX_X(v) \div 8
    IN  [i \in 1 .. BOX_ROW_BYTES(v) * BOX_H(v) |->
            LET y == (i - 1) \div BOX_ROW_BYTES(v)
                k == (i - 1) % BOX_ROW_BYTES(v)
            IN  img[(BOX_Y(v) + y) * SCR_ROW_BYTES + srcByteX + k + 1]]

InitBox ==
    /\ variant \in {v \in Variants : HasBox(v)}
    /\ DRY_RAW = SourceDryRaw(variant)
    /\ WET_RAW = SourceWetRaw(variant)
    /\ raw = -1
    /\ pct = -1
    /\ status = ""
    /\ pc = "boot"
    /\ now = U32Of(0)
    /\ lastUpdate = U32Of(0)
    /\ lastPct = -1
    /\ frontPct = -1
    /\ panel = NoRefresh
    /\ fault = "none"
    /\ drawn = << >>
    /\ \E step \in 1 .. MaxPatStep, offset \in 0 .. MaxPatOffset :
          BWimage = Pattern(step, offset)
    /\ boxBuf = << >>
    /\ copied = FALSE
    /\ ticks = 0
    /\ sinceRefresh = -1
    /\ lastGap = -1
    /\ sinceFull = 0
    /\ probePin = "floating"
    /\ adcLog = << >>
    /\ elapsedBig = 0
    /\ elapsedSmall = 0
    /\ sinceBoot = -1
    /\ logging = FALSE

CopyBox ==
    /\ ~copied
    /\ boxBuf' = copyBoxFromBWimage(variant, BWimage)
    /\ copied' = TRUE
    /\ UNCHANGED <<cfgVars, mapVars, progVars, ghostVars, probeVars, histVars, BWimage>>

NextBox == CopyBox

SpecBox == InitBox /\ [][NextBox]_vars

----------------------------------------------------------------------------
(* Claims                                                                  *)

\* C1: for every raw code 0..4095 and every calibration pair with
\* dryRaw # wetRaw, of either polarity, the mapped percent is an integer
\* in 0..100.
C1_PercentInRange ==
    (pct # -1 /\ DRY_RAW # WET_RAW) => pct \in 0 .. 100

\* an inverted pair whose unclamped quotient exceeds 100 was mapped
C1_Witness ==
    /\ pct = 100
    /\ DRY_RAW < WET_RAW
    /\ CDiv((DRY_RAW - raw) * 100, DRY_RAW - WET_RAW) > 100

\* C2: two physical refreshes issued by loop() are at least UPDATE_MS ticks
\* apart: of two activations of loop() less than UPDATE_MS apart at most
\* one refreshes the panel, whatever the activations and tick values.
C2_Debounce == lastGap = -1 \/ lastGap >= UPDATE_MS

\* loop() refreshed twice, the second time exactly UPDATE_MS after the first
C2_Witness == lastGap = UPDATE_MS /\ panel.by = "loop"

\* C3: in every sketch some finite K bounds the number of consecutive
\* update cycles without a full-frame refresh; stated for K = MaxTicks, the
\* longest run of cycles explored (the partial-refresh sketches extend the
\* run by one with every further cycle).
C3_FullRefreshWithinK == sinceFull < MaxTicks

\* C4: with dryRaw = wetRaw no division by zero is ever executed and the
\* sketch stops in setup() before a sample is mapped or a frame rendered.
C4_EqualCalibrationRejected ==
    (DRY_RAW = WET_RAW) =>
        /\ fault = "none"
        /\ pct = -1
        /\ frontPct = -1
        /\ panel.kind = "none"

\* C8: no partial refresh is ever issued for a region whose x or width is
\* not a multiple of 8 (such a region is rejected at startup).
C8_PartialRefreshAligned ==
    (panel.kind = "partial") => (panel.x % 8 = 0 /\ panel.w % 8 = 0)

\* C9: after copyBoxFromBWimage the buffer holds (BOX_W/8) * BOX_H bytes,
\* and byte k of destination row r is byte BOX_X/8 + k of canvas row
\* BOX_Y + r (row stride SCR_ROW_BYTES), which lies inside that one row; so
\* writing the rows back at the same place reproduces the region. For the
\* box of every sketch.
C9_RowsFromOneCanvasRow ==
    copied =>
        LET rowBytes == BOX_W(variant) \div 8
        IN  /\ Len(boxBuf) = rowBytes * BOX_H(variant)
            /\ \A r \in 0 .. BOX_H(variant) - 1 : \A k \in 0 .. rowBytes - 1 :
                   /\ BOX_X(variant) \div 8 + k < SCR_ROW_BYTES
                   /\ r * rowBytes + k + 1 \in DOMAIN boxBuf
                   /\ boxBuf[r * rowBytes + k + 1] =
                          BWimage[(BOX_Y(variant) + r) * SCR_ROW_BYTES
                                  + BOX_X(variant) \div 8 + k + 1]

\* C10: every pixel a drawDynamic call writes lies strictly inside the
\* dynamic box (BOX_X < x < BOX_X + BOX_W - 1, BOX_Y < y < BOX_Y + BOX_H - 1),
\* for every percent and every sketch with a drawDynamic; the outline, the
\* divider and the title all lie outside that interior, so they stay as
\* drawStaticLayout left them.
C10_DrawsInsideBox ==
    (HasBox(variant) /\ drawn # << >>) =>
        \A i \in 1 .. Len(drawn) :
            LET e == Extent(drawn[i])
            IN  /\ BOX_X(variant) < e.xmin
                /\ e.xmax < BOX_X(variant) + BOX_W(variant) - 1
                /\ BOX_Y(variant) < e.ymin
                /\ e.ymax < BOX_Y(variant) + BOX_H(variant) - 1

\* the exact quotient n/d (d > 0) rounded to the nearest integer, halves up
RoundNearest(n, d) == (2 * n + d) \div (2 * d)

\* C5 as stated: with dryRaw = 3200 and wetRaw = 1400 the percent is the
\* exact quotient (dryRaw - raw) * 100 / (dryRaw - wetRaw) rounded to the
\* nearest integer and then clamped to 0..100.
C5_RoundedQuotient ==
    (pct # -1 /\ DRY_RAW = 3200 /\ WET_RAW = 1400) =>
        pct = clampi(RoundNearest((DRY_RAW - raw) * 100, DRY_RAW - WET_RAW), 0, 100)

\* C5 amended: with dryRaw = 3200 and wetRaw = 1400 the percent is the exact
\* quotient with its fractional part discarded, clamped to 0..100: it is 0
\* when the numerator n = (dryRaw - raw) * 100 is negative, 100 when
\* n >= 100 * d for d = dryRaw - wetRaw, and otherwise the one integer p
\* with p * d <= n < (p + 1) * d.
C5_TruncatedQuotient ==
    (pct # -1 /\ DRY_RAW = 3200 /\ WET_RAW = 1400) =>
        LET n == (DRY_RAW - raw) * 100
            d == DRY_RAW - WET_RAW
        IN  /\ n < 0 => pct = 0
            /\ n >= 100 * d => pct = 100
            /\ (0 <= n /\ n < 100 * d) => (pct * d <= n /\ n < (pct + 1) * d)

\* raw = 3190: the exact quotient is 0.55.., mapped to 0 and not to 1
C5_Witness ==
    /\ DRY_RAW = 3200 /\ WET_RAW = 1400
    /\ raw = 3190
    /\ pct = 0

\* C6: in the three-band sketches every percent in 0..100 gets exactly one
\* of DRY, OK, WET: DRY iff percent < THRESH_DRY, WET iff percent >=
\* THRESH_WET, OK otherwise; with 35/70: 34 DRY, 35 OK, 69 OK, 70 WET.
C6_ThreeBands ==
    (status # "" /\ ~FiveBand(variant)) =>
        /\ status \in {"DRY", "OK", "WET"}
        /\ (status = "DRY") <=> (pct < THRESH_DRY(variant))
        /\ (status = "WET") <=> (pct >= THRESH_WET(variant))
        /\ (status = "OK") <=> (THRESH_DRY(variant) <= pct /\ pct < THRESH_WET(variant))
        /\ pct = 34 => status = "DRY"
        /\ pct = 35 => status = "OK"
        /\ pct = 69 => status = "OK"
        /\ pct = 70 => status = "WET"

\* the lower edge of the OK band was classified
C6_Witness == ~FiveBand(variant) /\ pct = 35 /\ status = "OK"

\* the band table of the five-band configuration, as upper bounds
BandTable5 == <<20, 40, 60, 80, 100>>
BandLabels5 == <<"DRY", "DAMP", "IDEAL", "WET", "SATURATED">>

\* the first band whose upper bound exceeds p, else the last band
FirstExceeding(p) ==
    LET above == {i \in 1 .. Len(BandTable5) : BandTable5[i] > p}
    IN  IF above = {} THEN BandLabels5[Len(BandLabels5)]
        ELSE BandLabels5[CHOOSE i \in above : \A j \in above : i <= j]

\* C7: in the five-band sketch the label of every percent in 0..100 is the
\* first of DRY, DAMP, IDEAL, WET, SATURATED whose upper bound in
\* {20,40,60,80,100} exceeds the percent, else the last; so it is one of
\* those five, 59 is IDEAL, 60 is WET and 80..100 are all SATURATED.
C7_FiveBands ==
    (status # "" /\ FiveBand(variant)) =>
        /\ status = FirstExceeding(pct)
        /\ status \in {BandLabels5[i] : i \in 1 .. Len(BandLabels5)}
        /\ pct = 59 => status = "IDEAL"
        /\ pct = 60 => status = "WET"
        /\ pct >= 80 => status = "SATURATED"

\* the calls of the latest drawing that belong to the part named
PartsOf(ops, part) == SelectSeq(ops, LAMBDA op : op.part = part)

\* C11: in every sketch with a dynamic box the head circle that is drawn
\* lies entirely inside the box interior, whatever the configured radius:
\* faceCx - faceR > BOX_X, faceCx + faceR < BOX_X + BOX_W - 1,
\* faceCy - faceR > BOX_Y and faceCy + faceR < BOX_Y + BOX_H - 1; also in the
\* sketch with faceR = 45 and BOX_H = 90, whose clamp gets lo > hi.
C11_FaceInsideBox ==
    (HasBox(variant) /\ drawn # << >>) =>
        \A i \in 1 .. Len(drawn) :
            (drawn[i].part = "head") =>
                LET faceCx == drawn[i].x0
                    faceCy == drawn[i].y0
                    faceR == drawn[i].r
                IN  /\ faceCx - faceR > BOX_X(variant)
                    /\ faceCx + faceR < BOX_X(variant) + BOX_W(variant) - 1
                    /\ faceCy - faceR > BOX_Y(variant)
                    /\ faceCy + faceR < BOX_Y(variant) + BOX_H(variant) - 1

\* C12: for every percent in 0..100 the number of columns the bar's fill
\* covers is floor(innerWidth * percent / 100), innerWidth being the number
\* of columns strictly between the left and right edge of the bar's outline:
\* none at 0, all of them at 100, and never a column of the outline; in the
\* fillW sketches and in the fillPx sketch.
C12_BarFillColumns ==
    (drawn # << >> /\ PartsOf(drawn, "bar") # << >>) =>
        LET bar == PartsOf(drawn, "bar")[1]
            fills == PartsOf(drawn, "fill")
            innerWidth == bar.x1 - bar.x0 - 1
            columns == IF fills = << >> THEN 0 ELSE fills[1].x1 - fills[1].x0 + 1
        IN  /\ columns = (innerWidth * pct) \div 100
            /\ pct = 0 => columns = 0
            /\ pct = 100 => columns = innerWidth
            /\ fills # << >> => (bar.x0 < fills[1].x0 /\ fills[1].x1 < bar.x1)

\* whether T mod 2^32 >= UPDATE_MS for the true time T = big * (2^32 -
\* UPDATE_MS) + small since lastUpdate was assigned: T is congruent to
\* x = small - big * UPDATE_MS, and a negative x stands for 2^32 + x, which
\* is far above UPDATE_MS for every x the explored advances can produce
WrappedTimeDue(big, small) ==
    LET x == small - big * UPDATE_MS
    IN  x < 0 \/ x >= UPDATE_MS

\* C13: whenever loop() can be activated, its debounce test lets the cycle
\* run exactly when (true time since lastUpdate was assigned) mod 2^32 >=
\* UPDATE_MS, across wraparound of the counter: in particular never earlier
\* than UPDATE_MS after the previous cycle, and always when the true time is
\* between UPDATE_MS and 2^32 - 1; with and without the (uint32_t) cast.
C13_WrapSafeDebounce ==
    (pc = "run") =>
        /\ DueIn(variant, now, lastUpdate) <=> WrappedTimeDue(elapsedBig, elapsedSmall)
        /\ DueIn(variant, now, lastUpdate) => (elapsedBig >= 1 \/ elapsedSmall >= UPDATE_MS)
        /\ ( \/ (elapsedBig = 0 /\ elapsedSmall >= UPDATE_MS)
             \/ (elapsedBig = 1 /\ elapsedSmall < UPDATE_MS) )
               => DueIn(variant, now, lastUpdate)

\* a second cycle has just run at a counter value below UPDATE_MS: the
\* counter wrapped between the two cycles
C13_Witness ==
    /\ pc = "run"
    /\ PartialRefresh(variant)
    /\ sinceFull >= 2
    /\ lastUpdate = now
    /\ elapsedBig = 0 /\ elapsedSmall = 0
    /\ U32Lt(now, U32Of(UPDATE_MS))

\* C14: for dryRaw > wetRaw a raw code at or beyond a calibration end point
\* saturates: the percent is 0 for every raw >= dryRaw and 100 for every
\* raw <= wetRaw, for raw in 0..4095; with 3200/1400, raw = 3200 gives 0 and
\* raw = 1400 gives 100.
C14_SaturatesAtEndpoints ==
    (pct # -1 /\ DRY_RAW > WET_RAW) =>
        /\ raw >= DRY_RAW => pct = 0
        /\ raw <= WET_RAW => pct = 100
        /\ (DRY_RAW = 3200 /\ WET_RAW = 1400 /\ raw = 3200) => pct = 0
        /\ (DRY_RAW = 3200 /\ WET_RAW = 1400 /\ raw = 1400) => pct = 100

\* the top code of the ADC, far beyond the dry end point, was mapped to 0
C14_Witness ==
    /\ DRY_RAW = 3200 /\ WET_RAW = 1400
    /\ raw = ADC_MAX
    /\ pct = 0

\* spacing of the codes every mapped code is compared with
MonoGrid == 32

\* the codes a mapped code r is compared with: the next two codes, the
\* calibration points, the top code and every multiple of MonoGrid, as far
\* as they are not below r
LaterCodes(r, dry, wet) ==
    { r2 \in {r + 1, r + 2, dry, dry + 1, wet, wet + 1, ADC_MAX}
             \cup {MonoGrid * k : k \in 0 .. (ADC_MAX \div MonoGrid)} :
        r <= r2 /\ r2 <= ADC_MAX }

\* C15: for dryRaw > wetRaw the percent is non-increasing in raw: the
\* percent of a raw code is at least the percent of every later code it is
\* compared with (its successor among them, so that the comparisons chain
\* over all of 0..4095), also where the unclamped quotient changes sign.
C15_NonIncreasing ==
    (pct # -1 /\ DRY_RAW > WET_RAW) =>
        \A r2 \in LaterCodes(raw, DRY_RAW, WET_RAW) :
            pct >= MapPercent(variant, r2, DRY_RAW, WET_RAW)

\* the first code past the dry end point: the quotient -100/1800 is
\* truncated to 0
C15_Witness ==
    /\ DRY_RAW = 3200 /\ WET_RAW = 1400
    /\ raw = DRY_RAW + 1
    /\ pct = 0
    /\ (DRY_RAW - raw) * 100 < 0

\* the sum of the codes logged at positions from .. to
RECURSIVE SumLogged(_, _, _)
SumLogged(log, from, to) ==
    IF from > to THEN 0 ELSE log[from].val + SumLogged(log, from + 1, to)

\* C16: every call of the power-switched readMoistureRaw is power on, the
\* settle delay, 6 discarded reads, 16 averaged reads, power off, in that
\* order; the value returned is the sum of exactly the last 16 reads
\* divided by 16 with truncation; the probe pin is HIGH during every
\* analogRead of the call, and LOW after setup() and whenever loop() returns.
C16_PowerSwitchedSampling ==
    HasProbePower(variant) =>
        /\ pc = "run" => probePin = "LOW"
        /\ pc = "boot" => probePin # "HIGH"
        /\ adcLog # << >> =>
              /\ Len(adcLog) = 25
              /\ adcLog[1].ev = "power" /\ adcLog[1].val = 1
              /\ adcLog[2].ev = "delay" /\ adcLog[2].val > 0
              /\ \A i \in 3 .. 8 : adcLog[i].ev = "discard"
              /\ \A i \in 9 .. 24 : adcLog[i].ev = "sample"
              /\ adcLog[25].ev = "power" /\ adcLog[25].val = 0
              /\ \A i \in 1 .. Len(adcLog) :
                     adcLog[i].ev \in {"discard", "sample"} => adcLog[i].pin = "HIGH"
              /\ raw = SumLogged(adcLog, 9, 24) \div 16

\* loop() has sampled with the warm-up reads at the top code and the
\* averaged reads at 0: the value returned is 0
C16_Witness ==
    /\ HasProbePower(variant)
    /\ pc = "run"
    /\ panel.by = "loop"
    /\ adcLog # << >>
    /\ adcLog[3].val = ADC_MAX
    /\ raw = 0
    /\ probePin = "LOW"

\* C17: the boot refresh counts as the last refresh for the debounce: the
\* first refresh loop() issues comes no earlier than UPDATE_MS after the
\* full refresh of setup(), for any positive boot duration.
C17_BootRefreshCounts ==
    [][ (panel.by = "setup" /\ panel'.by = "loop") => sinceBoot >= UPDATE_MS ]_vars

\* C18: in the change-detection sketch a due cycle leaves the frame and the
\* panel alone if and only if the percent it computed equals the percent
\* the panel shows, the percent of the boot refresh included; so the first
\* due cycle does not refresh when its percent equals the boot percent.
C18_SkipIffSameAsShown ==
    [][ (ChangeDetect(variant) /\ pc = "run" /\ lastUpdate' # lastUpdate) =>
            ( (panel' = panel /\ drawn' = drawn /\ frontPct' = frontPct)
              <=> (pct' = panel.pct) ) ]_vars

\* the mouth and the decoration of a drawing
FaceExpression(ops) == PartsOf(ops, "mouth") \o PartsOf(ops, "sweat")

\* C19: in the five-level sketch the label and the face follow the same
\* partition of 0..100: two percents have the same label if and only if
\* drawFaceAt draws the same mouth and decoration for them, and the sweat
\* drop is drawn only for percents with the label of the wettest band.
C19_LabelBandsAreFaceBands ==
    (FiveBand(variant) /\ drawn # << >>) =>
        /\ \A q \in 0 .. 100 :
               (statusFromPct(variant, pct) = statusFromPct(variant, q))
               <=> (FaceExpression(drawn) = FaceExpression(drawDynamic(variant, q)))
        /\ PartsOf(drawn, "sweat") # << >> => status = statusFromPct(variant, 100)

\* C20: after setup() and after every return of loop() the percent drawn in
\* the front buffer and sent to the panel is the percent computed from the
\* most recent sample, in the always-refresh sketches and in the
\* change-detection sketch.
C20_DisplayedIsLatest ==
    (pc = "run") =>
        /\ pct = MapPercent(variant, raw, DRY_RAW, WET_RAW)
        /\ frontPct = pct
        /\ panel.kind # "none"
        /\ panel.pct = pct

\* the change-detection sketch has just run a due cycle without a refresh
\* (lastUpdate was assigned now, the latest refresh of loop() is older)
C20_Witness ==
    /\ ChangeDetect(variant)
    /\ pc = "run"
    /\ lastUpdate = now
    /\ elapsedBig = 0 /\ elapsedSmall = 0
    /\ sinceRefresh > 0
    /\ panel.by = "loop"
    /\ panel.pct = pct

====
